---- MODULE Spec2Model ----
(***************************************************************************)
(* A model of hdf5_zarr_shard_demo.py: the relocation of the HDF5 Fixed    *)
(* Array Data Block (FADB) to the end of the file, and the reader of the   *)
(* trailing Zarr shard index.                                              *)
(*                                                                         *)
(* The file on disk is a sequence of bytes (0..255).  File offsets are the *)
(* zero-based offsets of the Python code; Slice(b, lo, hi) is b[lo:hi].    *)
(* Every f.write of move_fadb_to_end is one step, so that the file can be  *)
(* inspected after each individual write.                                  *)
(***************************************************************************)
EXTENDS Integers, Sequences, FiniteSets

\* ------------------------------------------------------------------ bounds

\* Largest number of filler bytes between the two fixed-array records.
MaxGap == 1
\* Largest number of filler bytes after the last record of the file.
MaxTail == 1
\* Number of calls of move_fadb_to_end on one file.
MaxRuns == 2

\* ------------------------------------------------------- program constants

\* f.read(48): the superblock is the first 48 bytes of the file.
SUPERBLOCK_SIZE == 48
\* f.read(28): the Fixed Array Header is 28 bytes from its signature.
FAHD_SIZE == 28
\* 18 + n_chunks*entry_size: the fixed part of the Fixed Array Data Block.
FADB_FIXED == 18
\* The trailing bytes of a record that hold its checksum (b[-4:]).
CHECKSUM_SIZE == 4
\* 2*8*16: the reader decodes 16 pairs ...
SHARD_ENTRIES == 16
\* ... of two 8-byte integers each ("<qq").
PAIR_SIZE == 16

\* b"FAHD" and b"FADB"
FAHD_SIG == <<70, 65, 72, 68>>
FADB_SIG == <<70, 65, 68, 66>>

\* ------------------------------------------------------------ byte strings

Min(a, b) == IF a <= b THEN a ELSE b
Max(a, b) == IF a >= b THEN a ELSE b

\* Python's b[lo:hi] for 0 <= lo: clipped at the end of b.
Slice(b, lo, hi) ==
    LET h == Min(hi, Len(b))
    IN  IF lo >= h THEN <<>> ELSE SubSeq(b, lo + 1, h)

\* bytes(n): n zero bytes.
Zeros(n) == <<>> \o [i \in 1..n |-> 0]

\* n filler bytes of value v.
Fill(n, v) == <<>> \o [i \in 1..n |-> v]

\* b.find(sig): offset of the first occurrence of sig in b, -1 when absent.
Occurrences(b, sig) ==
    {p \in 0..(Len(b) - Len(sig)) : \A j \in 1..Len(sig) : b[p + j] = sig[j]}

Find(b, sig) ==
    LET S == Occurrences(b, sig)
    IN  IF S = {} THEN -1 ELSE CHOOSE p \in S : \A q \in S : p <= q

\* f.seek(pos); f.write(data) on a file whose content is b (pos <= Len(b)).
WriteAt(b, pos, data) ==
    SubSeq(b, 1, pos) \o data \o SubSeq(b, pos + Len(data) + 1, Len(b))

\* int.from_bytes(s, "little")
RECURSIVE FromLE(_)
FromLE(s) == IF s = <<>> THEN 0 ELSE Head(s) + 256 * FromLE(Tail(s))

\* x.to_bytes(n, "little")
RECURSIVE ToLE(_, _)
ToLE(x, n) == IF n = 0 THEN <<>> ELSE <<x % 256>> \o ToLE(x \div 256, n - 1)

\* ---------------------------------------------- jenkins lookup3 hashlittle
\* A 32-bit word is the pair <<high 16 bits, low 16 bits>>: the arithmetic
\* is modulo 2^32 and TLC's integers are narrower than that.

Pow2(k) == CASE k = 0 -> 1 [] k = 1 -> 2 [] k = 2 -> 4 [] k = 3 -> 8
             [] k = 4 -> 16 [] k = 5 -> 32 [] k = 6 -> 64 [] k = 7 -> 128
             [] k = 8 -> 256 [] k = 9 -> 512 [] k = 10 -> 1024
             [] k = 11 -> 2048 [] k = 12 -> 4096 [] k = 13 -> 8192
             [] k = 14 -> 16384 [] k = 15 -> 32768 [] k = 16 -> 65536

WAdd(x, y) ==
    LET lo == x[2] + y[2]
    IN  <<(x[1] + y[1] + lo \div 65536) % 65536, lo % 65536>>

WSub(x, y) == WAdd(x, WAdd(<<65535 - y[1], 65535 - y[2]>>, <<0, 1>>))

RECURSIVE Xor16(_, _)
Xor16(x, y) ==
    IF x = 0 THEN y
    ELSE IF y = 0 THEN x
    ELSE ((x + y) % 2) + 2 * Xor16(x \div 2, y \div 2)

WXor(x, y) == <<Xor16(x[1], y[1]), Xor16(x[2], y[2])>>

\* rot(x, k): rotate left by k bits, 0 < k < 32.
WRot(x, k) ==
    LET s == IF k >= 16 THEN <<x[2], x[1]>> ELSE x
        r == k % 16
        m == Pow2(16 - r)
    IN  IF r = 0 THEN s
        ELSE <<(s[1] % m) * Pow2(r) + s[2] \div m,
               (s[2] % m) * Pow2(r) + s[1] \div m>>

\* lookup3's mix(a,b,c) on s = <<a, b, c>>.
MixStep(s, r) ==
    LET a == WXor(WSub(s[1], s[3]), WRot(s[3], r))
    IN  <<s[2], WAdd(s[3], s[2]), a>>

\* The six lines of mix rotate by 4, 6, 8, 16, 19, 4; after every third
\* line the state is <<a, b, c>> again.
MixRot == <<4, 6, 8, 16, 19, 4>>

RECURSIVE MixFrom(_, _)
MixFrom(s, i) ==
    IF i > Len(MixRot) THEN s ELSE MixFrom(MixStep(s, MixRot[i]), i + 1)

Mix(s) == MixFrom(s, 1)

\* lookup3's final(a,b,c) on s = <<a, b, c>>.
FinalStep(s, r) ==
    LET c == WSub(WXor(s[3], s[2]), WRot(s[2], r))
    IN  <<s[2], c, s[1]>>

\* The seven lines of final rotate by 14, 11, 25, 16, 4, 14, 24; they leave
\* the state as <<b, c, a>>.
FinalRot == <<14, 11, 25, 16, 4, 14, 24>>

RECURSIVE FinalFrom(_, _)
FinalFrom(s, i) ==
    IF i > Len(FinalRot) THEN s ELSE FinalFrom(FinalStep(s, FinalRot[i]), i + 1)

Final(s) == FinalFrom(s, 1)

\* a += k[0]; b += k[1]; c += k[2] for the 12-byte block at offset o of k
\* (a last block shorter than 12 bytes counts as padded with zeros).
ByteAt(k, i) == IF i <= Len(k) THEN k[i] ELSE 0

WordAt(k, o) ==
    <<ByteAt(k, o + 3) + 256 * ByteAt(k, o + 4),
      ByteAt(k, o + 1) + 256 * ByteAt(k, o + 2)>>

AddBlock(s, k, o) ==
    <<WAdd(s[1], WordAt(k, o)), WAdd(s[2], WordAt(k, o + 4)),
      WAdd(s[3], WordAt(k, o + 8))>>

\* The loop "while (length > 12)" and the tail of hashlittle, from offset o.
RECURSIVE HashBlocks(_, _, _)
HashBlocks(k, o, s) ==
    IF Len(k) - o > 12
        THEN LET t == Mix(AddBlock(s, k, o))
             \* (the test evaluates t before the next block is entered)
             IN  IF t[3][2] >= 0 THEN HashBlocks(k, o + 12, t) ELSE t
    ELSE IF Len(k) - o = 0 THEN s
    ELSE Final(AddBlock(s, k, o))

\* jenkins_cffi.hashlittle(k).to_bytes(4, "little")
HashLittleBytes(k) ==
    LET iv == WAdd(<<57005, 48879>>, <<Len(k) \div 65536, Len(k) % 65536>>)
        s == HashBlocks(k, 0, <<iv, iv, iv>>)
        \* After Final the state is rotated: <<b, c, a>>.
        c == IF Len(k) = 0 THEN s[3] ELSE s[2]
    IN  <<c[2] % 256, c[2] \div 256, c[1] % 256, c[1] \div 256>>

\* ------------------------------------------------------------- checksums

\* b[:-4] and b[-4:]
Payload(b) == Slice(b, 0, Max(0, Len(b) - CHECKSUM_SIZE))
Trailer(b) == Slice(b, Max(0, Len(b) - CHECKSUM_SIZE), Len(b))

\* verify_checksum(b)
verify_checksum(b) == Trailer(b) = HashLittleBytes(Payload(b))

\* A set_checksum that returns its argument with the old checksum.
set_checksum_stale(b) == b

\* set_checksum(b): ba[-4:] = hash_bytes
set_checksum(b) == Payload(b) \o HashLittleBytes(Payload(b))

\* verify_superblock(filename), on the content of the file
verify_superblock(f) == verify_checksum(Slice(f, 0, SUPERBLOCK_SIZE))

\* ba[-hi:-lo] = data, for a data as long as the slice it replaces
SetFromEnd(b, hi, lo, data) ==
    SubSeq(b, 1, Len(b) - hi) \o data \o SubSeq(b, Len(b) - lo + 1, Len(b))

\* A rewrite of the superblock that leaves the old checksum in place.
NewSuperblock_noseal(sb, e) == SetFromEnd(sb, 20, 12, ToLE(e, 8))

\* superblock_bytes[-20:-12] = eof.to_bytes(8, "little"), then set_checksum
NewSuperblock(sb, e) == set_checksum(SetFromEnd(sb, 20, 12, ToLE(e, 8)))

\* fahd_bytes[-12:-4] = new_fadb_position.to_bytes(8, "little"), then
\* set_checksum
NewFahd(fahd, pos) == set_checksum(SetFromEnd(fahd, 12, 4, ToLE(pos, 8)))

\* A zero-fill that writes the block back instead of zeros.
OldFadbFill_keep(data) == data

\* bytes(len(fadb_bytes)): what is written over the old data block
OldFadbFill(data) == Zeros(Len(data))

\* ------------------------------------------------------------- containers
\* The files handed to move_fadb_to_end: a version 3 superblock, then the
\* Fixed Array Header and the Fixed Array Data Block of one chunked dataset
\* with filtered chunks, in either order, with filler bytes (other objects
\* of the file) before, between and after them.

Layouts == {"FAHD_FADB", "FADB_FAHD"}
Records == {"both", "no_FAHD", "no_FADB"}
\* The dataset of the demo has 16 chunks; 1 and 17 are its neighbours.
EntryCounts == {1, 16, 17}
\* 8-byte address + 4-byte chunk size + 4-byte filter mask
EntrySizes == {16}

\* The address and the stored size of chunk i (from 0), as the library
\* allocates them: increasing addresses, positive sizes.
ChunkAddress(i) == 70000 + 4099 * i
ChunkNbytes(i) == 4000 + 7 * i

FadbLength(n, e) == FADB_FIXED + n * e

FadbEntry(i, e) ==
    ToLE(ChunkAddress(i), 8) \o ToLE(ChunkNbytes(i), e - 12) \o ToLE(0, 4)

RECURSIVE FadbEntries(_, _, _)
FadbEntries(i, n, e) ==
    IF i >= n THEN <<>> ELSE FadbEntry(i, e) \o FadbEntries(i + 1, n, e)

\* The checksum the library that wrote the file put at the end of a record:
\* the same hash over all but the last four bytes.
Sealed(b) == Payload(b) \o HashLittleBytes(Payload(b))

\* "\211HDF\r\n\032\n", version 3, 8-byte offsets and lengths, flags, base
\* address, extension address (undefined), end-of-file address, root object
\* header address, checksum.
SuperblockRecord(eofAddr) ==
    Sealed(<<137, 72, 68, 70, 13, 10, 26, 10, 3, 8, 8, 0>>
                 \o ToLE(0, 8) \o Fill(8, 255) \o ToLE(eofAddr, 8)
                 \o ToLE(SUPERBLOCK_SIZE, 8) \o Zeros(CHECKSUM_SIZE))

\* "FAHD", version, client id (filtered chunks), entry size, page bits,
\* number of entries, data block address, checksum.
FahdRecord(n, e, fadbAddr) ==
    Sealed(FAHD_SIG \o <<0, 1, e, 10>> \o ToLE(n, 8)
                 \o ToLE(fadbAddr, 8) \o Zeros(CHECKSUM_SIZE))

\* "FADB", version, client id, header address, the entries, checksum.
FadbRecord(n, e, fahdAddr) ==
    Sealed(FADB_SIG \o <<0, 1>> \o ToLE(fahdAddr, 8)
                 \o FadbEntries(0, n, e) \o Zeros(CHECKSUM_SIZE))

Container(layout, recs, n, e, gap, tail) ==
    LET hlen == IF recs = "no_FAHD" THEN 0 ELSE FAHD_SIZE
        dlen == IF recs = "no_FADB" THEN 0 ELSE FadbLength(n, e)
        first == SUPERBLOCK_SIZE + gap
        fahdAt == IF layout = "FAHD_FADB" THEN first ELSE first + dlen + gap
        fadbAt == IF layout = "FAHD_FADB" THEN first + hlen + gap ELSE first
        total == first + hlen + gap + dlen + tail
        H == IF recs = "no_FAHD" THEN <<>> ELSE FahdRecord(n, e, fadbAt)
        D == IF recs = "no_FADB" THEN <<>> ELSE FadbRecord(n, e, fahdAt)
    IN  SuperblockRecord(total) \o Fill(gap, 170)
        \o (IF layout = "FAHD_FADB" THEN H ELSE D) \o Fill(gap, 171)
        \o (IF layout = "FAHD_FADB" THEN D ELSE H) \o Fill(tail, 187)

\* ------------------------------------------------------------ shard index

\* One "q" of struct "<qq": the signed 64-bit little-endian integer in the
\* 8 bytes at offset o, as its four 16-bit digits, least significant first
\* (two's complement; a 64-bit value does not fit TLC's integers).
UnpackQ(b, o) ==
    <<b[o + 1] + 256 * b[o + 2], b[o + 3] + 256 * b[o + 4],
      b[o + 5] + 256 * b[o + 6], b[o + 7] + 256 * b[o + 8]>>

\* struct.iter_unpack("<qq", b)
IterUnpackQQ(b) ==
    <<>> \o [i \in 1..(Len(b) \div PAIR_SIZE) |->
        <<UnpackQ(b, PAIR_SIZE * (i - 1)), UnpackQ(b, PAIR_SIZE * (i - 1) + 8)>>]

\* A seek that forgets the 4 checksum bytes.
ShardSeek_nochecksum == 2 * 8 * SHARD_ENTRIES

\* f.seek(-2*8*16-4, 2): the distance from the end of the file
ShardSeek == 2 * 8 * SHARD_ENTRIES + CHECKSUM_SIZE

\* b = f.read(2*8*16)
ShardReadLength == 2 * 8 * SHARD_ENTRIES

\* ------------------------------------------------------------------ state

VARIABLES
    file,               \* the bytes of the file on disk
    pc,                 \* where move_fadb_to_end stands
    superblock_bytes,   \* the locals of move_fadb_to_end
    fahd_position,
    fahd_bytes,
    fadb_position,
    fadb_bytes,
    new_fadb_position,
    eof,
    pairs,              \* what read_zarr_shard_chunk_metadata returned for
                        \* the file as it stands
    started,            \* calls of move_fadb_to_end so far
    completed,          \* ... that returned normally
    orig,               \* the file as it was handed over
    runStart            \* the file when the current call began

vars == <<file, pc, superblock_bytes, fahd_position, fahd_bytes, fadb_position,
          fadb_bytes, new_fadb_position, eof, pairs, started, completed, orig,
          runStart>>

locals == <<superblock_bytes, fahd_position, fahd_bytes, fadb_position,
            fadb_bytes, new_fadb_position, eof>>

NoPairs == [status |-> "none", value |-> <<>>]

Init ==
    /\ \E layout \in Layouts, recs \in Records, n \in EntryCounts,
          e \in EntrySizes, gap \in 0..MaxGap, tail \in 0..MaxTail :
            file = Container(layout, recs, n, e, gap, tail)
    /\ orig = file
    /\ runStart = file
    /\ pc = "idle"
    /\ superblock_bytes = <<>>
    /\ fahd_position = 0
    /\ fahd_bytes = <<>>
    /\ fadb_position = 0
    /\ fadb_bytes = <<>>
    /\ new_fadb_position = 0
    /\ eof = 0
    /\ pairs = NoPairs
    /\ started = 0
    /\ completed = 0

Idle == pc \in {"idle", "done", "error"}

\* read_fixed_array_metadata, called first by move_fadb_to_end.  f.seek of
\* a negative position raises OSError; fahd_bytes[6] of a short read raises
\* IndexError.  The data block is read from where the read of the header
\* left the file position.
read_fixed_array_metadata ==
    /\ Idle
    /\ started < MaxRuns
    /\ started' = started + 1
    /\ runStart' = file
    /\ pairs' = NoPairs
    /\ LET b == file
           fp == Find(b, FAHD_SIG)
           fahd == Slice(b, fp, fp + FAHD_SIZE)
       IN  \/ /\ fp >= 0 /\ Len(fahd) > 6
              /\ LET n_chunks == FromLE(Slice(fahd, 8, 16))
                     entry_size == fahd[7]
                     after == fp + Len(fahd)
                 IN  /\ superblock_bytes' = Slice(b, 0, SUPERBLOCK_SIZE)
                     /\ fahd_position' = fp
                     /\ fahd_bytes' = fahd
                     /\ fadb_position' = Find(b, FADB_SIG)
                     /\ fadb_bytes' =
                          Slice(b, after, after + FADB_FIXED + n_chunks * entry_size)
              /\ pc' = "parsed"
              /\ UNCHANGED <<new_fadb_position, eof>>
           \/ /\ ~(fp >= 0 /\ Len(fahd) > 6)
              /\ pc' = "error"
              /\ UNCHANGED locals
    /\ UNCHANGED <<file, completed, orig>>

\* f.seek(0, 2); new_fadb_position = f.tell(); f.write(fadb_bytes);
\* eof = f.tell()
write_fadb ==
    /\ pc = "parsed"
    /\ new_fadb_position' = Len(file)
    /\ file' = file \o fadb_bytes
    /\ eof' = Len(file) + Len(fadb_bytes)
    /\ pc' = "appended"
    /\ UNCHANGED <<superblock_bytes, fahd_position, fahd_bytes, fadb_position,
                   fadb_bytes, pairs, started, completed, orig, runStart>>

\* Rewrite superblock eof
rewrite_superblock ==
    /\ pc = "appended"
    /\ superblock_bytes' = NewSuperblock(superblock_bytes, eof)
    /\ file' = WriteAt(file, 0, superblock_bytes')
    /\ pc' = "superblock"
    /\ UNCHANGED <<fahd_position, fahd_bytes, fadb_position, fadb_bytes,
                   new_fadb_position, eof, pairs, started, completed, orig,
                   runStart>>

\* Adjust FAHD and overwrite
rewrite_fahd ==
    /\ pc = "superblock"
    /\ fahd_bytes' = NewFahd(fahd_bytes, new_fadb_position)
    /\ file' = WriteAt(file, fahd_position, fahd_bytes')
    /\ pc' = "header"
    /\ UNCHANGED <<superblock_bytes, fahd_position, fadb_position, fadb_bytes,
                   new_fadb_position, eof, pairs, started, completed, orig,
                   runStart>>

\* Zero out old FADB.  f.seek(-1) raises OSError when b.find(b"FADB") found
\* nothing; the writes made so far stay in the file.
zero_old_fadb ==
    /\ pc = "header"
    /\ \/ /\ fadb_position >= 0
          /\ file' = WriteAt(file, fadb_position, OldFadbFill(fadb_bytes))
          /\ pc' = "done"
          /\ completed' = completed + 1
       \/ /\ fadb_position < 0
          /\ pc' = "error"
          /\ UNCHANGED <<file, completed>>
    /\ UNCHANGED <<superblock_bytes, fahd_position, fahd_bytes, fadb_position,
                   fadb_bytes, new_fadb_position, eof, pairs, started, orig,
                   runStart>>

\* read_zarr_shard_chunk_metadata.  f.seek(-260, 2) raises OSError on a file
\* shorter than 260 bytes.
read_zarr_shard_chunk_metadata ==
    /\ Idle
    /\ pairs.status = "none"
    /\ \/ /\ Len(file) >= ShardSeek
          /\ LET at == Len(file) - ShardSeek
                 b == Slice(file, at, at + ShardReadLength)
             IN  pairs' = [status |-> "ok", value |-> IterUnpackQQ(b)]
       \/ /\ Len(file) < ShardSeek
          /\ pairs' = [status |-> "error", value |-> <<>>]
    /\ UNCHANGED <<file, pc, locals, started, completed, orig, runStart>>

Next ==
    \/ read_fixed_array_metadata
    \/ write_fadb
    \/ rewrite_superblock
    \/ rewrite_fahd
    \/ zero_old_fadb
    \/ read_zarr_shard_chunk_metadata

Spec == Init /\ [][Next]_vars

\* ----------------------------------------------------- what the claims read

\* The container holds a header record and a data-block record.
HasBoth(f) == Find(f, FAHD_SIG) >= 0 /\ Find(f, FADB_SIG) >= 0

\* Entry count and entry size declared by the header record of f, and the
\* length of the data-block record they give.
DeclaredCount(f) ==
    FromLE(Slice(f, Find(f, FAHD_SIG) + 8, Find(f, FAHD_SIG) + 16))
DeclaredSize(f) == f[Find(f, FAHD_SIG) + 7]
BlockLength(f) == FADB_FIXED + DeclaredCount(f) * DeclaredSize(f)

\* The data-block record of f, located by its signature.
BlockAt(f) == Find(f, FADB_SIG)
Block(f) == Slice(f, BlockAt(f), BlockAt(f) + BlockLength(f))

\* The end-of-file field of the root descriptor (bytes 28..36 of the file).
EofField(f) == FromLE(Slice(f, 28, 36))

\* The data-block pointer of the header record at offset hp (body 16..24).
PointerField(f, hp) == FromLE(Slice(f, hp + 16, hp + 24))

\* The header record at offset hp verifies.
HeaderVerifies(f, hp) == verify_checksum(Slice(f, hp, hp + FAHD_SIZE))

SigCount(f) == Cardinality(Occurrences(f, FADB_SIG))

\* A non-negative integer below 2^31 as a 64-bit value in 16-bit digits.
Int64Digits(x) == <<x % 65536, x \div 65536, 0, 0>>

\* The first n (offset, length) pairs the container was written with.
StoredPairs(n) ==
    <<>> \o [i \in 1..n |->
                <<Int64Digits(ChunkAddress(i - 1)), Int64Digits(ChunkNbytes(i - 1))>>]

\* One of the three checks fails: a checksum, or the end-of-file field.
Detectable(f, hp) ==
    \/ ~verify_superblock(f)
    \/ ~HeaderVerifies(f, hp)
    \/ EofField(f) # Len(f)

FirstRunDone == pc = "done" /\ completed = 1 /\ HasBoth(orig)

\* -------------------------------------------------------------- the claims

\* C1: round trip.  After one relocation of a container with one header
\* record (n entries) and one data-block record, the shard index read back
\* is exactly the n (offset, length) pairs the data block held, in order,
\* wherever the data block was.  Stated for the containers whose header
\* declares the 16 entries that the reader decodes.
C1_RoundTrip ==
    (FirstRunDone /\ DeclaredCount(orig) = SHARD_ENTRIES /\ pairs.status # "none")
        => /\ pairs.status = "ok"
           /\ pairs.value = StoredPairs(DeclaredCount(orig))

\* C2: after a relocation run completes, the end-of-file field of the root
\* descriptor equals the file length, and the checksums of the root
\* descriptor and of the header record verify.
C2_EofAndChecksums ==
    pc = "done"
        => /\ EofField(file) = Len(file)
           /\ verify_superblock(file)
           /\ HeaderVerifies(file, fahd_position)

C2_Witness == FirstRunDone /\ Len(file) > Len(orig)

\* C3: after one relocation of a container with one header record and one
\* data-block record, exactly one FADB signature remains, at end-of-file
\* minus the length of the data block.
C3_OneBlockAtEnd ==
    FirstRunDone
        => /\ SigCount(file) = 1
           /\ Find(file, FADB_SIG) = Len(file) - BlockLength(orig)

\* C4 as stated: a second relocation of a relocated file leaves two FADB
\* signatures.
C4_TwoSignatures ==
    (pc = "done" /\ completed = 2 /\ HasBoth(orig)) => SigCount(file) = 2

\* C4 as amended: a second (or later) relocation appends again, as many
\* bytes as it read for the data block, and zero-fills the block it located
\* by signature, so that at most one FADB signature remains.
C4_SecondRun ==
    (pc = "done" /\ completed >= 2)
        => /\ SigCount(file) <= 1
           /\ Len(file) = Len(runStart) + Len(fadb_bytes)

C4_Witness ==
    pc = "done" /\ completed = 2 /\ HasBoth(orig) /\ Len(fadb_bytes) > 0

\* C5 as stated: once the append has added bytes to the file, and until the
\* zero-fill has been done, one of the three checks fails.
C5_CrashDetectable ==
    (pc \in {"appended", "superblock", "header"} /\ Len(file) > Len(runStart))
        => Detectable(file, fahd_position)

\* C5 as amended: right after the append the end-of-file field is short of
\* the file length by the number of bytes appended; once the root
\* descriptor has been rewritten, and after the header has been rewritten,
\* all three checks pass.
C5_CrashWindow ==
    /\ pc = "appended" => Len(file) = EofField(file) + Len(fadb_bytes)
    /\ pc \in {"superblock", "header"} => ~Detectable(file, fahd_position)

C5_Witness ==
    /\ pc \in {"superblock", "header"}
    /\ started = 1
    /\ HasBoth(orig)
    /\ Len(file) > Len(orig)

\* C6: when the FAHD or the FADB signature is absent the relocation fails
\* before any write: the error leaves the file as the run found it.
C6_FailsBeforeWrites == pc = "error" => file = runStart

\* C7 as stated: the reader returns as many pairs as the entry count asked
\* for (the count the header record declares), decoded from the bytes at
\* end_of_file - entry_count*16 - 4.
C7_ReadsRequestedCount ==
    (pairs.status = "ok" /\ Find(file, FAHD_SIG) >= 0)
        => LET n == DeclaredCount(file)
               at == Len(file) - n * PAIR_SIZE - CHECKSUM_SIZE
           IN  pairs.value = IterUnpackQQ(Slice(file, at, at + n * PAIR_SIZE))

\* C7 as amended: the reader takes no entry count.  On a file of at least
\* 260 bytes it returns 16 pairs, the i-th decoded from the 16 bytes that
\* end 4 + 16*(16-i) bytes before the end of the file; on a shorter file
\* the seek fails.
C7_ReadsSixteen ==
    /\ pairs.status = "ok"
         => /\ Len(pairs.value) = 16
            /\ \A i \in 1..16 :
                 LET o == Len(file) - 4 - 16 * (16 - i) - 16
                 IN  /\ o >= 0
                     /\ pairs.value[i] = <<UnpackQ(file, o), UnpackQ(file, o + 8)>>
    /\ pairs.status = "error" => Len(file) < 260

C7_Witness == pairs.status = "ok" /\ FirstRunDone

\* C8: after a relocation run completes, the pointer field of the header
\* record equals the file length before the append, and the bytes at that
\* offset are the data-block record located by its signature, unchanged.
C8_PointerToBlock ==
    FirstRunDone
        => LET ptr == PointerField(file, fahd_position)
           IN  /\ ptr = Len(orig)
               /\ Slice(file, ptr, ptr + BlockLength(orig)) = Block(orig)

\* C9: after a relocation run completes, every byte of the range the
\* data-block record occupied is zero.
C9_OldRangeZero ==
    FirstRunDone
        => Slice(file, BlockAt(orig), BlockAt(orig) + BlockLength(orig))
             = Zeros(BlockLength(orig))

\* C10: during the first relocation of a container whose header points at
\* its data block, after each write the offset stored in the header record
\* on disk holds a byte-identical copy of the original data block.
C10_PointerAlwaysValid ==
    (HasBoth(orig) /\ started = 1 /\ pc \in {"parsed", "appended", "superblock", "header", "done"})
        => LET ptr == PointerField(file, Find(orig, FAHD_SIG))
           IN  Slice(file, ptr, ptr + BlockLength(orig)) = Block(orig)

====
